---- MODULE Spec2Model ----
(***************************************************************************)
(* Device controller of client/data-abstraction (devices.rs): the group    *)
(* hierarchy each device keeps, the linking handshake                      *)
(* (update_linked_group / confirm_update_linked_group) and delete_device.  *)
(* Group and GroupStore (crate::groups) are modelled from their contract;  *)
(* Device is modelled from devices.rs.                                     *)
(***************************************************************************)
EXTENDS Integers, FiniteSets, Sequences, TLC

VARIABLES dev, last, merged, inflight

vars == <<dev, last, merged, inflight>>

(***************************************************************************)
(* Identities                                                              *)
(***************************************************************************)
\* The devices of the model, named by their idkey.
Idkeys == {"0", "1", "2"}

\* The devices the calls of Spec are made on.
Devices == {"0", "1"}

\* Option<T>
None == [some |-> FALSE]
Some(v) == [some |-> TRUE, val |-> v]

\* Uuid::new_v4().to_string(): a name no other construction produces.
Uuid(idkey) == "uuid-" \o idkey

\* The linked_name_arg values a device is constructed with: none (a fresh
\* uuid) or the name of a linked group, which several devices may be given.
\* An identity names a device or a group, never both.
LinkedNameArgs(idkey) == {None, Some("linked")}

\* The pending_link_idkey values a device is constructed with.
PendingArgs(idkey) == {None} \cup {Some(p) : p \in Devices \ {idkey}}

Ids == Idkeys \cup {"linked"} \cup {Uuid(i) : i \in Idkeys}

(***************************************************************************)
(* Group                                                                   *)
(***************************************************************************)
Group_new(group_id, contact_level, is_container) ==
  [group_id |-> group_id,
   contact_level |-> contact_level,
   parents |-> {},
   children |-> IF is_container THEN Some({}) ELSE None]

(***************************************************************************)
(* GroupStore: a table of groups keyed by identity                         *)
(***************************************************************************)
GroupStore_new == [k \in {} |-> Group_new("", FALSE, FALSE)]

set_group(s, id, g) ==
  [k \in DOMAIN s \cup {id} |-> IF k = id THEN g ELSE s[k]]

get_group(s, id) == IF id \in DOMAIN s THEN Some(s[id]) ELSE None

\* link_groups that writes the parent's end of the edge only.
link_groups_one_sided(s, parent_id, child_id) ==
  IF /\ parent_id \in DOMAIN s
     /\ child_id \in DOMAIN s
     /\ s[parent_id].children.some
  THEN [s EXCEPT ![parent_id].children = Some(@.val \cup {child_id})]
  ELSE s

\* Both ends of the edge are written; nothing is written when an end is
\* missing or the parent is a leaf.
link_groups(s, parent_id, child_id) ==
  IF /\ parent_id \in DOMAIN s
     /\ child_id \in DOMAIN s
     /\ s[parent_id].children.some
  THEN LET s1 == [s EXCEPT ![parent_id].children = Some(@.val \cup {child_id})]
       IN [s1 EXCEPT ![child_id].parents = @ \cup {parent_id}]
  ELSE s

add_parent(s, id, parent_id) == link_groups(s, parent_id, id)

add_child(s, id, child_id) == link_groups(s, id, child_id)

remove_child(s, parent_id, child_id) ==
  LET s1 == IF parent_id \in DOMAIN s /\ s[parent_id].children.some
            THEN [s EXCEPT ![parent_id].children = Some(@.val \ {child_id})]
            ELSE s
  IN IF child_id \in DOMAIN s1
     THEN [s1 EXCEPT ![child_id].parents = @ \ {parent_id}]
     ELSE s1

delete_group(s, id) == [k \in DOMAIN s \ {id} |-> s[k]]

get_all_groups(s) == s

group_replace(g, old_id, new_id) ==
  [g EXCEPT
     !.parents = IF old_id \in @ THEN (@ \ {old_id}) \cup {new_id} ELSE @,
     !.children = IF @.some /\ old_id \in @.val
                  THEN Some((@.val \ {old_id}) \cup {new_id})
                  ELSE @]

\* The children of the groups of `from` that are keys of the store.
ChildrenOf(s, from) ==
  UNION {IF s[g].children.some THEN s[g].children.val ELSE {} : g \in from}
    \cap DOMAIN s

RECURSIVE Descend(_, _, _)
Descend(s, frontier, seen) ==
  IF frontier = {} THEN seen
  ELSE LET next == ChildrenOf(s, frontier) \ seen
       IN Descend(s, next, seen \cup next)

get_all_subgroups(s, id) ==
  LET r == Descend(s, {id} \cap DOMAIN s, {id} \cap DOMAIN s)
  IN [k \in r |-> s[k]]

resolve_ids(s, roots) ==
  LET r == Descend(s, roots \cap DOMAIN s, roots \cap DOMAIN s)
  IN {g \in r : ~s[g].children.some}

(***************************************************************************)
(* Device                                                                  *)
(***************************************************************************)
\* A device that has not been constructed yet.
NoDevice(d) ==
  [constructed |-> FALSE, alive |-> FALSE, idkey |-> d, linked_name |-> "",
   pending_link_idkey |-> None, group_store |-> GroupStore_new]

\* Device::new without the link_groups call.
Device_new_unlinked(idkey, linked_name_arg, pending_link_idkey) ==
  LET linked_name == IF linked_name_arg.some THEN linked_name_arg.val
                     ELSE Uuid(idkey)
      s1 == set_group(GroupStore_new, linked_name,
                      Group_new(linked_name, FALSE, TRUE))
      s2 == set_group(s1, idkey, Group_new(idkey, FALSE, FALSE))
  IN [constructed |-> TRUE, alive |-> TRUE, idkey |-> idkey,
      linked_name |-> linked_name,
      pending_link_idkey |-> pending_link_idkey,
      group_store |-> s2]

Device_new(idkey, linked_name_arg, pending_link_idkey) ==
  LET linked_name == IF linked_name_arg.some THEN linked_name_arg.val
                     ELSE Uuid(idkey)
      s1 == set_group(GroupStore_new, linked_name,
                      Group_new(linked_name, FALSE, TRUE))
      s2 == set_group(s1, idkey, Group_new(idkey, FALSE, FALSE))
      s3 == link_groups(s2, linked_name, idkey)
  IN [constructed |-> TRUE, alive |-> TRUE, idkey |-> idkey,
      linked_name |-> linked_name,
      pending_link_idkey |-> pending_link_idkey,
      group_store |-> s3]

linked_devices(dv) == resolve_ids(dv.group_store, {dv.linked_name})

\* An iteration order of a HashSet.
RECURSIVE IterOf(_)
IterOf(S) ==
  IF S = {} THEN <<>>
  ELSE LET x == CHOOSE y \in S : TRUE IN <<x>> \o IterOf(S \ {x})

\* linked_devices_excluding_self without its filter.
linked_devices_excluding_self_unfiltered(dv) ==
  IterOf(resolve_ids(dv.group_store, {dv.linked_name}))

linked_devices_excluding_self(dv) ==
  LET keep(x) == x # dv.idkey
  IN SelectSeq(IterOf(resolve_ids(dv.group_store, {dv.linked_name})), keep)

linked_devices_excluding_self_and_other(dv, other) ==
  LET keep(x) == x # dv.idkey /\ x # other
  IN SelectSeq(IterOf(resolve_ids(dv.group_store, {dv.linked_name})), keep)

\* for (id, val) in table: set_group(id, val)
RECURSIVE set_groups(_, _)
set_groups(s, table) ==
  IF DOMAIN table = {} THEN s
  ELSE LET id == CHOOSE k \in DOMAIN table : TRUE
       IN set_groups(set_group(s, id, table[id]), delete_group(table, id))

\* for parent in parents: add_parent(id, parent)
RECURSIVE add_parents(_, _, _)
add_parents(s, id, parents) ==
  IF parents = {} THEN s
  ELSE LET p == CHOOSE x \in parents : TRUE
       IN add_parents(add_parent(s, id, p), id, parents \ {p})

\* for child in children: add_child(id, child)
RECURSIVE add_children(_, _, _)
add_children(s, id, children) ==
  IF children = {} THEN s
  ELSE LET c == CHOOSE x \in children : TRUE
       IN add_children(add_child(s, id, c), id, children \ {c})

\* for parent in parents: remove_child(parent, id)
RECURSIVE remove_from_parents(_, _, _)
remove_from_parents(s, parents, id) ==
  IF parents = {} THEN s
  ELSE LET p == CHOOSE x \in parents : TRUE
       IN remove_from_parents(remove_child(s, p, id), parents \ {p}, id)

\* A call's outcome: the device as the call leaves it, and what the caller
\* gets: "Ok", an Err(kind), or "panic" when an unwrap() of None aborts.
Outcome(dv, result) ==
  [dev |-> IF result = "panic" THEN [dv EXCEPT !.alive = FALSE] ELSE dv,
   result |-> result]

\* update_linked_group with one step changed: "no_replace" installs the
\* groups as exported, "no_children" skips the merge of the temp root's
\* children, "replace_children" writes them over the root's own,
\* "clear_pending" also clears pending_link_idkey.
update_linked_group_changed(dv, temp_linked_name, members_to_add, change) ==
  LET perm_linked_name == dv.linked_name
  IN IF temp_linked_name \notin DOMAIN members_to_add
     THEN Outcome(dv, "panic")
     ELSE
       LET temp_linked_group == members_to_add[temp_linked_name]
           removed == delete_group(members_to_add, temp_linked_name)
           replaced == IF change = "no_replace" THEN removed
                       ELSE [id \in DOMAIN removed |->
                               group_replace(removed[id], temp_linked_name,
                                             perm_linked_name)]
           s1 == set_groups(dv.group_store, replaced)
           s2 == add_parents(s1, perm_linked_name, temp_linked_group.parents)
           s3 == IF change = "replace_children"
                    /\ perm_linked_name \in DOMAIN s2
                 THEN [s2 EXCEPT ![perm_linked_name].children = Some({})]
                 ELSE s2
           pending == IF change = "clear_pending" THEN None
                      ELSE dv.pending_link_idkey
       IN IF ~temp_linked_group.children.some
          THEN Outcome([dv EXCEPT !.group_store = s3], "panic")
          ELSE Outcome([dv EXCEPT !.group_store =
                          IF change = "no_children" THEN s3
                          ELSE add_children(s3, perm_linked_name,
                                            temp_linked_group.children.val),
                        !.pending_link_idkey = pending],
                       "Ok")

update_linked_group_no_replace(dv, sender, temp_linked_name, members_to_add) ==
  update_linked_group_changed(dv, temp_linked_name, members_to_add,
                              "no_replace")

update_linked_group_no_children(dv, sender, temp_linked_name, members_to_add) ==
  update_linked_group_changed(dv, temp_linked_name, members_to_add,
                              "no_children")

update_linked_group_replace_children(dv, sender, temp_linked_name, members_to_add) ==
  update_linked_group_changed(dv, temp_linked_name, members_to_add,
                              "replace_children")

update_linked_group_clear_pending(dv, sender, temp_linked_name, members_to_add) ==
  update_linked_group_changed(dv, temp_linked_name, members_to_add,
                              "clear_pending")

update_linked_group(dv, sender, temp_linked_name, members_to_add) ==
  LET perm_linked_name == dv.linked_name
  IN IF temp_linked_name \notin DOMAIN members_to_add
     THEN Outcome(dv, "panic")
     ELSE
       LET temp_linked_group == members_to_add[temp_linked_name]
           removed == delete_group(members_to_add, temp_linked_name)
           replaced == [id \in DOMAIN removed |->
                          group_replace(removed[id], temp_linked_name,
                                        perm_linked_name)]
           s1 == set_groups(dv.group_store, replaced)
           s2 == add_parents(s1, perm_linked_name, temp_linked_group.parents)
       IN IF ~temp_linked_group.children.some
          THEN Outcome([dv EXCEPT !.group_store = s2], "panic")
          ELSE Outcome([dv EXCEPT !.group_store =
                          add_children(s2, perm_linked_name,
                                       temp_linked_group.children.val)],
                       "Ok")

\* confirm_update_linked_group without the delete_group of the old root.
confirm_update_linked_group_keep_root(dv, new_linked_name, new_groups) ==
  Outcome([dv EXCEPT !.group_store = set_groups(dv.group_store, new_groups),
                     !.linked_name = new_linked_name,
                     !.pending_link_idkey = None],
          "Ok")

\* confirm_update_linked_group without the assignment of linked_name.
confirm_update_linked_group_keep_name(dv, new_linked_name, new_groups) ==
  LET s1 == delete_group(dv.group_store, dv.linked_name)
  IN Outcome([dv EXCEPT !.group_store = set_groups(s1, new_groups),
                        !.pending_link_idkey = None],
             "Ok")

\* confirm_update_linked_group without the clear_pending_link_idkey.
confirm_update_linked_group_keep_pending(dv, new_linked_name, new_groups) ==
  LET s1 == delete_group(dv.group_store, dv.linked_name)
  IN Outcome([dv EXCEPT !.group_store = set_groups(s1, new_groups),
                        !.linked_name = new_linked_name],
             "Ok")

\* confirm_update_linked_group with the table installed before, not after,
\* the delete_group of the old root.
confirm_update_linked_group_install_first(dv, new_linked_name, new_groups) ==
  LET s1 == set_groups(dv.group_store, new_groups)
  IN Outcome([dv EXCEPT !.group_store = delete_group(s1, dv.linked_name),
                        !.linked_name = new_linked_name,
                        !.pending_link_idkey = None],
             "Ok")

confirm_update_linked_group(dv, new_linked_name, new_groups) ==
  LET s1 == delete_group(dv.group_store, dv.linked_name)
      s2 == set_groups(s1, new_groups)
  IN Outcome([dv EXCEPT !.group_store = s2,
                        !.linked_name = new_linked_name,
                        !.pending_link_idkey = None],
             "Ok")

\* delete_device without the children check.
delete_device_unchecked(dv, to_delete) ==
  LET found == get_group(dv.group_store, to_delete)
  IN IF ~found.some THEN Outcome(dv, "panic")
     ELSE LET s1 == remove_from_parents(dv.group_store, found.val.parents,
                                        to_delete)
          IN Outcome([dv EXCEPT !.group_store = delete_group(s1, to_delete)],
                     "Ok")

\* delete_device without the remove_child loop.
delete_device_no_detach(dv, to_delete) ==
  LET found == get_group(dv.group_store, to_delete)
  IN IF ~found.some THEN Outcome(dv, "panic")
     ELSE IF found.val.children.some THEN Outcome(dv, "DeviceHasChildren")
     ELSE Outcome([dv EXCEPT !.group_store =
                     delete_group(dv.group_store, to_delete)],
                  "Ok")

delete_device(dv, to_delete) ==
  LET found == get_group(dv.group_store, to_delete)
  IN IF ~found.some THEN Outcome(dv, "panic")
     ELSE IF found.val.children.some THEN Outcome(dv, "DeviceHasChildren")
     ELSE LET s1 == remove_from_parents(dv.group_store, found.val.parents,
                                        to_delete)
          IN Outcome([dv EXCEPT !.group_store = delete_group(s1, to_delete)],
                     "Ok")

(***************************************************************************)
(* The calls made on the devices.  last records the latest call: the       *)
(* device it ran on, its arguments, the device before it, and its result.  *)
(* merged holds <<a, b>> once a's update_linked_group of b's export has    *)
(* returned Ok.  inflight holds the ConfirmUpdateLinked messages that one  *)
(* step writes and a later step hands to confirm_update_linked_group.      *)
(***************************************************************************)
NoTable == GroupStore_new

Init ==
  /\ dev = [d \in Idkeys |-> NoDevice(d)]
  /\ last = [op |-> "none", d |-> "", peer |-> "", name |-> None,
             pending |-> None, table |-> NoTable, pre |-> NoDevice(""),
             result |-> "Ok"]
  /\ merged = {}
  /\ inflight = {}

New(d) ==
  /\ ~dev[d].constructed
  /\ \E linked_name_arg \in LinkedNameArgs(d), pending \in PendingArgs(d) :
       /\ dev' = [dev EXCEPT ![d] = Device_new(d, linked_name_arg, pending)]
       /\ last' = [op |-> "new", d |-> d, peer |-> "",
                   name |-> linked_name_arg, pending |-> pending,
                   table |-> NoTable, pre |-> dev[d], result |-> "Ok"]
  /\ UNCHANGED <<merged, inflight>>

\* Device a receives UpdateLinked from b: b's export of its linked group and
\* the name the message gives as b's temporary root.
UpdateLinkedGroup(a) ==
  /\ dev[a].alive
  /\ \E b \in Devices \ {a}, sender \in Devices, temp_linked_name \in Ids :
       /\ dev[b].alive
       /\ LET table == get_all_subgroups(dev[b].group_store, dev[b].linked_name)
              out == update_linked_group(dev[a], sender, temp_linked_name,
                                         table)
          IN /\ dev' = [dev EXCEPT ![a] = out.dev]
             /\ last' = [op |-> "update", d |-> a, peer |-> b,
                         name |-> Some(temp_linked_name), pending |-> None,
                         table |-> table, pre |-> dev[a],
                         result |-> out.result]
             /\ merged' = IF out.result = "Ok"
                          THEN merged \cup {<<a, b>>} ELSE merged
  /\ UNCHANGED inflight

\* Device b receives ConfirmUpdateLinked from a: a's linked_name and a's
\* get_all_groups() snapshot.
ConfirmUpdateLinkedGroup(b) ==
  /\ dev[b].alive
  /\ \E a \in Devices \ {b} :
       /\ dev[a].alive
       /\ LET table == get_all_groups(dev[a].group_store)
              out == confirm_update_linked_group(dev[b], dev[a].linked_name,
                                                 table)
          IN /\ dev' = [dev EXCEPT ![b] = out.dev]
             /\ last' = [op |-> "confirm", d |-> b, peer |-> a,
                         name |-> Some(dev[a].linked_name), pending |-> None,
                         table |-> table, pre |-> dev[b],
                         result |-> out.result]
  /\ UNCHANGED <<merged, inflight>>

DeleteDevice(d) ==
  /\ dev[d].alive
  /\ \E to_delete \in Ids :
       LET out == delete_device(dev[d], to_delete)
       IN /\ dev' = [dev EXCEPT ![d] = out.dev]
          /\ last' = [op |-> "delete", d |-> d, peer |-> "",
                      name |-> Some(to_delete), pending |-> None,
                      table |-> NoTable, pre |-> dev[d],
                      result |-> out.result]
  /\ UNCHANGED <<merged, inflight>>

Next ==
  \E d \in Devices :
    \/ New(d)
    \/ UpdateLinkedGroup(d)
    \/ ConfirmUpdateLinkedGroup(d)
    \/ DeleteDevice(d)

Spec == Init /\ [][Next]_vars

(***************************************************************************)
(* Vocabulary of the properties                                            *)
(***************************************************************************)
\* The device the latest call ran on, before and after the call.
Pre == last.pre
Post == dev[last.d]

Store(dv) == dv.group_store

IsContainer(s, id) == id \in DOMAIN s /\ s[id].children.some
IsLeaf(s, id) == id \in DOMAIN s /\ ~s[id].children.some

\* A set of identities with every occurrence of old written as new.
Renamed(S, old, new) == {IF x = old THEN new ELSE x : x \in S}

\* get_all_subgroups(linked_name) of a device.
LinkedSubgroups(dv) == get_all_subgroups(Store(dv), dv.linked_name)

\* A device as Device::new leaves it.
IsFresh(dv) ==
  \E n \in LinkedNameArgs(dv.idkey), p \in PendingArgs(dv.idkey) :
    dv = Device_new(dv.idkey, n, p)

(***************************************************************************)
(* C1  Construction: Device::new(idkey, Some(linked_name), pending) with   *)
(* idkey # linked_name leaves exactly two groups, the container            *)
(* linked_name with no parent and the one child idkey, and the leaf idkey  *)
(* with the one parent linked_name and children = None, both with          *)
(* contact_level = false; idkey, linked_name and pending_link_idkey are    *)
(* the arguments.                                                          *)
(***************************************************************************)
C1_Construction ==
  (last.op = "new" /\ last.name.some /\ last.name.val # last.d) =>
    LET linked_name == last.name.val
        s == Store(Post)
    IN /\ DOMAIN s = {linked_name, last.d}
       /\ s[linked_name] = [group_id |-> linked_name, contact_level |-> FALSE,
                            parents |-> {}, children |-> Some({last.d})]
       /\ s[last.d] = [group_id |-> last.d, contact_level |-> FALSE,
                       parents |-> {linked_name}, children |-> None]
       /\ Post.idkey = last.d
       /\ Post.linked_name = linked_name
       /\ Post.pending_link_idkey = last.pending

C1_Witness ==
  /\ last.op = "new"
  /\ last.name = Some("linked")
  /\ last.pending.some
  /\ Cardinality(DOMAIN Store(Post)) = 2

(***************************************************************************)
(* C2  Merge result: after update_linked_group(sender, temp_linked_name,   *)
(* members_to_add) returns Ok, (1) the call has not made temp_linked_name  *)
(* a key of the store, (2) every other exported group is in the store      *)
(* under its own identity with temp_linked_name written as the device's    *)
(* linked_name in its parents and children, and (3) the linked_name group  *)
(* has its prior children and parents united with the temp root's.         *)
(***************************************************************************)
C2_MergeResult ==
  (last.op = "update" /\ last.result = "Ok") =>
    LET temp == last.name.val
        perm == Pre.linked_name
        temp_root == last.table[temp]
    IN /\ temp \in DOMAIN Store(Post) => temp \in DOMAIN Store(Pre)
       /\ \A id \in DOMAIN last.table \ {temp} :
            /\ id \in DOMAIN Store(Post)
            /\ Store(Post)[id].group_id = last.table[id].group_id
            /\ Store(Post)[id].contact_level = last.table[id].contact_level
            /\ Store(Post)[id].parents
                 = Renamed(last.table[id].parents, temp, perm)
            /\ Store(Post)[id].children.some = last.table[id].children.some
            /\ last.table[id].children.some =>
                 Store(Post)[id].children.val
                   = Renamed(last.table[id].children.val, temp, perm)
       /\ IsContainer(Store(Pre), perm)
       /\ IsContainer(Store(Post), perm)
       /\ Store(Post)[perm].children.val
            = Store(Pre)[perm].children.val \cup temp_root.children.val
       /\ Store(Post)[perm].parents
            = Store(Pre)[perm].parents \cup temp_root.parents

\* A merge of an export whose root is not the receiver's, that installs a
\* group whose parent was the temp root.
C2_Witness ==
  /\ last.op = "update"
  /\ last.result = "Ok"
  /\ last.name.val # Pre.linked_name
  /\ last.name.val \notin DOMAIN Store(Post)
  /\ \E id \in DOMAIN last.table \ DOMAIN Store(Pre) :
       /\ id # last.name.val
       /\ last.name.val \in last.table[id].parents
       /\ id \in Store(Post)[Pre.linked_name].children.val
  /\ Store(Pre)[Pre.linked_name].children.val # {}

(***************************************************************************)
(* C3  Confirm postcondition: after confirm_update_linked_group(           *)
(* new_linked_name, new_groups) the device's linked_name is                *)
(* new_linked_name, its pending_link_idkey is None, every entry of         *)
(* new_groups is in its store with the value given, and its previous       *)
(* linked root is in the store only if new_groups has an entry for it.     *)
(***************************************************************************)
C3_ConfirmPostcondition ==
  (last.op = "confirm") =>
    /\ last.result = "Ok"
    /\ Post.linked_name = last.name.val
    /\ Post.pending_link_idkey = None
    /\ \A id \in DOMAIN last.table :
         id \in DOMAIN Store(Post) /\ Store(Post)[id] = last.table[id]
    /\ Pre.linked_name \in DOMAIN Store(Post) =>
         Pre.linked_name \in DOMAIN last.table

\* A pending device confirms: its old root goes and an entry of its own is
\* overwritten.
C3_Witness ==
  /\ last.op = "confirm"
  /\ Pre.pending_link_idkey.some
  /\ Pre.linked_name \in DOMAIN Store(Pre)
  /\ Pre.linked_name \notin DOMAIN Store(Post)
  /\ Pre.linked_name # Post.linked_name
  /\ \E id \in DOMAIN last.table \cap DOMAIN Store(Pre) :
       Store(Pre)[id] # last.table[id]

(***************************************************************************)
(* C4  Confirm convergence: when a has merged b's export and b then        *)
(* confirms with a's linked_name and a's get_all_groups() snapshot,        *)
(* get_all_subgroups(linked_name) is the same table on a and on b; for two *)
(* freshly constructed devices it is {root, a, b} with root.children =     *)
(* {a, b} and each leaf's parents = {root}.                                *)
(***************************************************************************)
\* b was fresh when it confirmed, and a is a fresh device that merged b's
\* export.
FreshPairConfirmed ==
  /\ last.op = "confirm"
  /\ IsFresh(Pre)
  /\ \E n \in LinkedNameArgs(last.peer), p \in PendingArgs(last.peer) :
       dev[last.peer]
         = update_linked_group(Device_new(last.peer, n, p), last.d,
                               Pre.linked_name, LinkedSubgroups(Pre)).dev

C4_ConfirmConvergence ==
  /\ (last.op = "confirm" /\ <<last.peer, last.d>> \in merged) =>
       LinkedSubgroups(dev[last.peer]) = LinkedSubgroups(Post)
  /\ FreshPairConfirmed =>
       LET root == Post.linked_name
           closure == LinkedSubgroups(Post)
       IN /\ LinkedSubgroups(dev[last.peer]) = closure
          /\ DOMAIN closure = {root, last.peer, last.d}
          /\ closure[root].children = Some({last.peer, last.d})
          /\ closure[last.peer].parents = {root}
          /\ closure[last.d].parents = {root}
          /\ closure[last.peer].children = None
          /\ closure[last.d].children = None

C4_Witness ==
  /\ FreshPairConfirmed
  /\ <<last.peer, last.d>> \in merged
  /\ Pre.linked_name # Post.linked_name
  /\ Cardinality(DOMAIN LinkedSubgroups(Post)) = 3

(***************************************************************************)
(* C5  delete_device on an identity whose group is a container (children   *)
(* is Some, even if empty) returns DeviceHasChildren and leaves the store, *)
(* linked_name and pending_link_idkey as they were.                        *)
(***************************************************************************)
C5_DeleteContainerRejected ==
  (last.op = "delete" /\ IsContainer(Store(Pre), last.name.val)) =>
    /\ last.result = "DeviceHasChildren"
    /\ Store(Post) = Store(Pre)
    /\ Post.linked_name = Pre.linked_name
    /\ Post.pending_link_idkey = Pre.pending_link_idkey

\* The container has no child left.
C5_Witness ==
  /\ last.op = "delete"
  /\ IsContainer(Store(Pre), last.name.val)
  /\ Store(Pre)[last.name.val].children = Some({})
  /\ last.result = "DeviceHasChildren"

(***************************************************************************)
(* C6  delete_device on a leaf of the store returns Ok; afterwards the     *)
(* leaf is no key of the store and is in no remaining group's children or  *)
(* parents, each of its former parents is still in the store, and every    *)
(* other group is unchanged.                                               *)
(***************************************************************************)
C6_DeleteLeaf ==
  (last.op = "delete" /\ IsLeaf(Store(Pre), last.name.val)) =>
    LET to_delete == last.name.val
        former == Store(Pre)[to_delete].parents
    IN /\ last.result = "Ok"
       /\ to_delete \notin DOMAIN Store(Post)
       /\ \A g \in DOMAIN Store(Post) :
            /\ to_delete \notin Store(Post)[g].parents
            /\ Store(Post)[g].children.some =>
                 to_delete \notin Store(Post)[g].children.val
       /\ \A p \in former \cap DOMAIN Store(Pre) : p \in DOMAIN Store(Post)
       /\ \A g \in DOMAIN Store(Pre) \ ({to_delete} \cup former) :
            g \in DOMAIN Store(Post) /\ Store(Post)[g] = Store(Pre)[g]

\* The last child of a parent is deleted; another group is in the store.
C6_Witness ==
  /\ last.op = "delete"
  /\ IsLeaf(Store(Pre), last.name.val)
  /\ last.result = "Ok"
  /\ \E p \in Store(Pre)[last.name.val].parents :
       /\ IsContainer(Store(Pre), p)
       /\ last.name.val \in Store(Pre)[p].children.val
       /\ IsContainer(Store(Post), p)
       /\ Store(Post)[p].children = Some({})
  /\ \E g \in DOMAIN Store(Post) : IsLeaf(Store(Post), g)

(***************************************************************************)
(* C7  update_linked_group leaves the receiving device's linked_name,      *)
(* idkey and pending_link_idkey as they were, whatever the sender, the     *)
(* temp_linked_name and the exported table.                                *)
(***************************************************************************)
C7_UpdateKeepsIdentity ==
  (last.op = "update") =>
    /\ Post.linked_name = Pre.linked_name
    /\ Post.idkey = Pre.idkey
    /\ Post.pending_link_idkey = Pre.pending_link_idkey

\* A device with a pending link merges an export.
C7_Witness ==
  /\ last.op = "update"
  /\ last.result = "Ok"
  /\ Pre.pending_link_idkey.some
  /\ Store(Post) # Store(Pre)

(***************************************************************************)
(* C8  Merged closure size: when the receiver's and the sender's stores    *)
(* share no identity and the merge returns Ok, the receiver's              *)
(* get_all_subgroups(linked_name) afterwards has as many groups as it had  *)
(* before plus the groups of the sender's export, less one: the sender's   *)
(* temp root is not installed, it collapses into the receiver's root.      *)
(***************************************************************************)
DisjointMerge ==
  /\ last.op = "update"
  /\ last.result = "Ok"
  /\ DOMAIN Store(Pre) \cap DOMAIN Store(dev[last.peer]) = {}

C8_MergedClosureSize ==
  DisjointMerge =>
    Cardinality(DOMAIN LinkedSubgroups(Post))
      = Cardinality(DOMAIN LinkedSubgroups(Pre))
          + Cardinality(DOMAIN last.table) - 1

\* C8 as the specification states it: the sizes add up.
C8_AsStated ==
  DisjointMerge =>
    Cardinality(DOMAIN LinkedSubgroups(Post))
      = Cardinality(DOMAIN LinkedSubgroups(Pre))
          + Cardinality(DOMAIN last.table)

\* Two closures of two groups each merge into one of three.
C8_Witness ==
  /\ DisjointMerge
  /\ Cardinality(DOMAIN LinkedSubgroups(Pre)) = 2
  /\ Cardinality(DOMAIN last.table) = 2
  /\ Cardinality(DOMAIN LinkedSubgroups(Post)) = 3

(***************************************************************************)
(* C9  linked_devices() contains the device's own idkey after              *)
(* construction, and stays so through every update_linked_group that       *)
(* returns Ok and every delete_device of another identity; after           *)
(* delete_device(idkey) returns Ok it does not contain it, and after       *)
(* confirm_update_linked_group it contains it exactly when idkey is a leaf *)
(* under new_linked_name in the table installed.                           *)
(***************************************************************************)
C9_OwnIdkeyLinked ==
  /\ last.op = "new" => Post.idkey \in linked_devices(Post)
  /\ (last.op = "update" /\ last.result = "Ok"
        /\ Pre.idkey \in linked_devices(Pre)) =>
       Post.idkey \in linked_devices(Post)
  /\ (last.op = "delete" /\ last.name.val # Pre.idkey
        /\ Pre.idkey \in linked_devices(Pre)) =>
       Post.idkey \in linked_devices(Post)
  /\ (last.op = "delete" /\ last.name.val = Pre.idkey /\ last.result = "Ok") =>
       Post.idkey \notin linked_devices(Post)
  /\ last.op = "confirm" =>
       (Post.idkey \in linked_devices(Post)
          <=> Pre.idkey \in resolve_ids(last.table, {last.name.val}))

\* C9 as the specification states it: in every state of a device that has
\* been constructed and has not aborted.
C9_AsStated ==
  \A d \in Devices : dev[d].alive => dev[d].idkey \in linked_devices(dev[d])

\* A device that had merged a peer deletes itself from its linked set.
C9_Witness ==
  /\ last.op = "delete"
  /\ last.name.val = Pre.idkey
  /\ last.result = "Ok"
  /\ Pre.idkey \in linked_devices(Pre)
  /\ linked_devices(Post) # {}
  /\ Post.idkey \notin linked_devices(Post)

(***************************************************************************)
(* C10  Membership queries: linked_devices() is the set of the leaves      *)
(* reached from linked_name along children edges; the two excluding        *)
(* queries list the same identities without idkey, and without idkey and   *)
(* other, each once.                                                       *)
(***************************************************************************)
\* The groups a path of children edges leads to from root, in the store.
PathsFrom(s, root) ==
  {g \in DOMAIN s :
     \E n \in 0..(Cardinality(DOMAIN s) - 1) :
       \E path \in [0..n -> DOMAIN s] :
         /\ path[0] = root
         /\ path[n] = g
         /\ \A i \in 0..(n - 1) :
              /\ s[path[i]].children.some
              /\ path[i + 1] \in s[path[i]].children.val}

LeavesUnder(dv) ==
  {g \in PathsFrom(Store(dv), dv.linked_name) : ~Store(dv)[g].children.some}

Elements(seq) == {seq[i] : i \in 1..Len(seq)}

ListsOnce(seq, S) == Elements(seq) = S /\ Len(seq) = Cardinality(S)

C10_MembershipQueries ==
  \A d \in Devices :
    dev[d].alive =>
      /\ linked_devices(dev[d]) = LeavesUnder(dev[d])
      /\ ListsOnce(linked_devices_excluding_self(dev[d]),
                   linked_devices(dev[d]) \ {dev[d].idkey})
      /\ \A other \in Ids :
           ListsOnce(linked_devices_excluding_self_and_other(dev[d], other),
                     linked_devices(dev[d]) \ {dev[d].idkey, other})

\* A device linked with a peer: each query answers differently.
C10_Witness ==
  \E d \in Devices :
    /\ dev[d].alive
    /\ \E other \in linked_devices(dev[d]) \ {dev[d].idkey} :
         /\ dev[d].idkey \in linked_devices(dev[d])
         /\ linked_devices_excluding_self(dev[d]) = <<other>>
         /\ linked_devices_excluding_self_and_other(dev[d], other) = <<>>

(***************************************************************************)
(* C11  Missing root entry: update_linked_group called with a table that   *)
(* has no entry for temp_linked_name returns a typed error, does not       *)
(* abort the process, and leaves the store as it was.                      *)
(***************************************************************************)
C11_AsStated ==
  (last.op = "update" /\ last.name.val \notin DOMAIN last.table) =>
    /\ last.result \notin {"Ok", "panic"}
    /\ Post.alive
    /\ Store(Post) = Store(Pre)

(***************************************************************************)
(* C12  Atomic failure: whenever update_linked_group does not complete     *)
(* with Ok, the store after the call equals the store before it.           *)
(***************************************************************************)
C12_AsStated ==
  (last.op = "update" /\ last.result # "Ok") => Store(Post) = Store(Pre)

(***************************************************************************)
(* C13  Deleting an unknown identity: delete_device of an identity that    *)
(* is not in the store reports it as a typed result, does not abort the    *)
(* process, and leaves the store as it was.                                *)
(***************************************************************************)
C13_AsStated ==
  (last.op = "delete" /\ last.name.val \notin DOMAIN Store(Pre)) =>
    /\ last.result \notin {"Ok", "panic"}
    /\ Post.alive
    /\ Store(Post) = Store(Pre)

(***************************************************************************)
(* C14  Link state machine: a device is LinkPending while its              *)
(* pending_link_idkey is Some(peer) and Standalone while it is None.       *)
(* Construction records the pending argument; update_linked_group and      *)
(* delete_device, whatever their outcome, leave pending_link_idkey as it   *)
(* was; a confirm_update_linked_group that completes leaves the device     *)
(* Standalone, and no other step changes pending_link_idkey; a Standalone  *)
(* device is Standalone after every step.                                  *)
(***************************************************************************)
LinkPending(dv) == dv.constructed /\ dv.pending_link_idkey.some
Standalone(dv) == dv.constructed /\ ~dv.pending_link_idkey.some

C14_LinkStateMachine ==
  [][\A d \in Devices :
       /\ (~dev[d].constructed /\ dev'[d].constructed) =>
            (last'.op = "new" /\ dev'[d].pending_link_idkey = last'.pending)
       /\ dev[d].constructed =>
            /\ dev'[d].constructed
            /\ (last'.op \in {"update", "delete"} \/ last'.d # d) =>
                 dev'[d].pending_link_idkey = dev[d].pending_link_idkey
            /\ (last'.op = "confirm" /\ last'.d = d) => Standalone(dev'[d])
            /\ Standalone(dev[d]) => Standalone(dev'[d])]_vars

\* A LinkPending device has gone through an update_linked_group and a
\* delete_device of its own and has then confirmed.
C14_Witness ==
  /\ last.op = "confirm"
  /\ LinkPending(Pre)
  /\ Standalone(Post)
  /\ <<last.d, last.peer>> \in merged
  /\ last.d \notin DOMAIN Store(Pre)

(***************************************************************************)
(* C15  Confirm guarded by link state: confirm_update_linked_group called  *)
(* on a device that is not LinkPending is rejected: it does not return     *)
(* Ok, and it changes neither linked_name nor the store.                   *)
(***************************************************************************)
C15_AsStated ==
  (last.op = "confirm" /\ Standalone(Pre)) =>
    /\ last.result # "Ok"
    /\ Post.linked_name = Pre.linked_name
    /\ Store(Post) = Store(Pre)

(***************************************************************************)
(* C16  Idempotence on replay: the same update_linked_group call made a    *)
(* second time on the device the first one left returns Ok again and       *)
(* leaves that device as it is, and so does the same                       *)
(* confirm_update_linked_group call made a second time.                    *)
(***************************************************************************)
C16_ReplayIdempotent ==
  /\ (last.op = "update" /\ last.result = "Ok") =>
       \A sender \in Devices :
         update_linked_group(Post, sender, last.name.val, last.table)
           = Outcome(Post, "Ok")
  /\ (last.op = "confirm" /\ last.result = "Ok") =>
       confirm_update_linked_group(Post, last.name.val, last.table)
         = Outcome(Post, "Ok")

\* A confirm that changed the root's name and the store, made after the
\* peer's merge of this device's export had changed the peer's store.
C16_Witness ==
  /\ last.op = "confirm"
  /\ last.result = "Ok"
  /\ LinkPending(Pre)
  /\ Post.linked_name # Pre.linked_name
  /\ Store(Post) # Store(Pre)
  /\ <<last.peer, last.d>> \in merged
  /\ last.d \in linked_devices(dev[last.peer])

(***************************************************************************)
(* The linking protocol as the messages carry it: UpdateLinked names the   *)
(* sender's own root as temp_linked_name, and ConfirmUpdateLinked is       *)
(* delivered only after the peer's merge of this device's export has       *)
(* returned Ok.                                                            *)
(***************************************************************************)
ProtocolUpdate(a) ==
  /\ UpdateLinkedGroup(a)
  /\ last'.name = Some(dev[last'.peer].linked_name)

ProtocolConfirm(b) ==
  /\ ConfirmUpdateLinkedGroup(b)
  /\ <<last'.peer, b>> \in merged

NextProtocol ==
  \E d \in Devices :
    \/ New(d)
    \/ ProtocolUpdate(d)
    \/ ProtocolConfirm(d)
    \/ DeleteDevice(d)

SpecProtocol == Init /\ [][NextProtocol]_vars

\* I1: C is in P.children iff P is in C.parents, for all P, C in the store.
I1(s) ==
  \A P \in DOMAIN s, C \in DOMAIN s :
    (s[P].children.some /\ C \in s[P].children.val) <=> P \in s[C].parents

\* I3: every identity in a parents or children set is a key of the store.
I3(s) ==
  \A g \in DOMAIN s :
    /\ s[g].parents \subseteq DOMAIN s
    /\ s[g].children.some => s[g].children.val \subseteq DOMAIN s

(***************************************************************************)
(* C17  DAG invariants: after every completed Device operation (new,       *)
(* update_linked_group with a peer's get_all_subgroups export,             *)
(* confirm_update_linked_group with the peer's post-merge get_all_groups   *)
(* snapshot, delete_device), each device's store satisfies I1 and I3.      *)
(***************************************************************************)
C17_AsStated ==
  \A d \in Devices :
    dev[d].constructed => I1(Store(dev[d])) /\ I3(Store(dev[d]))

(***************************************************************************)
(* The GroupStore on its own: the store of device "0", reached through     *)
(* group_store_mut(), under the five edge and entry mutators.  It starts   *)
(* as the store Device::new builds, with or without the unlinked groups    *)
(* of a second device beside it.                                           *)
(***************************************************************************)
StoreIds == {"0", "1", Uuid("0"), Uuid("1")}

\* The groups of device "1", set in the store with no edge between them.
WithPeerGroups(s) ==
  set_group(set_group(s, Uuid("1"), Group_new(Uuid("1"), FALSE, TRUE)),
            "1", Group_new("1", FALSE, FALSE))

StoreInit ==
  /\ \E peer \in BOOLEAN :
       LET dv == Device_new("0", None, None)
           s == IF peer THEN WithPeerGroups(dv.group_store)
                ELSE dv.group_store
       IN dev = [d \in Idkeys |->
                   IF d = "0" THEN [dv EXCEPT !.group_store = s]
                   ELSE NoDevice(d)]
  /\ last = [op |-> "none", d |-> "0", peer |-> "", name |-> None,
             pending |-> None, table |-> NoTable, pre |-> dev["0"],
             result |-> "Ok"]
  /\ merged = {}
  /\ inflight = {}

\* One GroupStore call op(first, second) on the store of device "0".
StoreCall(op, first, second, s) ==
  /\ dev' = [dev EXCEPT !["0"].group_store = s]
  /\ last' = [op |-> op, d |-> "0", peer |-> second, name |-> Some(first),
              pending |-> None, table |-> NoTable, pre |-> dev["0"],
              result |-> "Ok"]
  /\ UNCHANGED <<merged, inflight>>

LinkGroups ==
  \E parent_id \in StoreIds, child_id \in StoreIds :
    StoreCall("link_groups", parent_id, child_id,
              link_groups(dev["0"].group_store, parent_id, child_id))

AddParent ==
  \E id \in StoreIds, parent_id \in StoreIds :
    StoreCall("add_parent", id, parent_id,
              add_parent(dev["0"].group_store, id, parent_id))

AddChild ==
  \E id \in StoreIds, child_id \in StoreIds :
    StoreCall("add_child", id, child_id,
              add_child(dev["0"].group_store, id, child_id))

RemoveChild ==
  \E parent_id \in StoreIds, child_id \in StoreIds :
    StoreCall("remove_child", parent_id, child_id,
              remove_child(dev["0"].group_store, parent_id, child_id))

DeleteGroup ==
  \E id \in StoreIds :
    StoreCall("delete_group", id, "",
              delete_group(dev["0"].group_store, id))

StoreNext ==
  \/ LinkGroups
  \/ AddParent
  \/ AddChild
  \/ RemoveChild
  \/ DeleteGroup

SpecStore == StoreInit /\ [][StoreNext]_vars

\* I2: a group created as a leaf has children = None.  Device::new and
\* WithPeerGroups create the groups of idkeys as leaves, the others as
\* containers.
I2(s) == \A g \in DOMAIN s \cap Idkeys : ~s[g].children.some

(***************************************************************************)
(* C18  GroupStore invariant preservation: from a store that satisfies I1  *)
(* and I2, after any sequence of link_groups, add_parent, add_child,       *)
(* remove_child and delete_group calls, the groups remaining in the store  *)
(* satisfy I1, every edge between two of them being on both ends, and I2:  *)
(* no call changes a leaf into a container or a container into a leaf,     *)
(* and link_groups or add_child with a leaf as the parent changes          *)
(* nothing.                                                                *)
(***************************************************************************)
C18_StoreInvariants ==
  LET s == Store(dev["0"])
  IN /\ I1(s)
     /\ I2(s)
     /\ DOMAIN s \subseteq DOMAIN Store(Pre)
     /\ \A g \in DOMAIN s :
          s[g].children.some = Store(Pre)[g].children.some
     /\ (last.op \in {"link_groups", "add_child"}
         /\ IsLeaf(Store(Pre), last.name.val)) => s = Store(Pre)

\* An add_child with a leaf as the parent, on a store where a linked
\* group has been deleted and a container has two children.
C18_Witness ==
  /\ last.op = "add_child"
  /\ IsLeaf(Store(Pre), last.name.val)
  /\ last.peer \in DOMAIN Store(Pre)
  /\ ~I3(Store(Post))
  /\ \E g \in DOMAIN Store(Post) :
       /\ Store(Post)[g].children.some
       /\ Cardinality(Store(Post)[g].children.val \cap DOMAIN Store(Post)) = 2

(***************************************************************************)
(* Construction with any arguments: Device::new takes any string as        *)
(* linked_name, the device's own idkey and another device's included.      *)
(* Confirms are those whose table holds an entry for new_linked_name.      *)
(***************************************************************************)
AnyLinkedNameArgs(idkey) ==
  LinkedNameArgs(idkey) \cup {Some(i) : i \in Devices}

NewAnyArgs(d) ==
  /\ ~dev[d].constructed
  /\ \E linked_name_arg \in AnyLinkedNameArgs(d), pending \in PendingArgs(d) :
       /\ dev' = [dev EXCEPT ![d] = Device_new(d, linked_name_arg, pending)]
       /\ last' = [op |-> "new", d |-> d, peer |-> "",
                   name |-> linked_name_arg, pending |-> pending,
                   table |-> NoTable, pre |-> dev[d], result |-> "Ok"]
  /\ UNCHANGED <<merged, inflight>>

ConfirmWithRoot(b) ==
  /\ ConfirmUpdateLinkedGroup(b)
  /\ last'.name.val \in DOMAIN last'.table

NextAnyArgs ==
  \E d \in Devices :
    \/ NewAnyArgs(d)
    \/ UpdateLinkedGroup(d)
    \/ ConfirmWithRoot(d)
    \/ DeleteDevice(d)

SpecAnyArgs == Init /\ [][NextAnyArgs]_vars

\* linked_name is a key of the device's store and its group is a container.
RootWellFormed(dv) == IsContainer(Store(dv), dv.linked_name)

(***************************************************************************)
(* C19  Root well-formedness, as stated: in every state reachable from     *)
(* Device::new, for any idkey and linked_name argument, by                 *)
(* update_linked_group, delete_device and confirm_update_linked_group      *)
(* with an entry for new_linked_name in the table, linked_name is a key    *)
(* of the device's store and its group is a container.                     *)
(***************************************************************************)
C19_AsStated ==
  \A d \in Devices : dev[d].alive => RootWellFormed(dev[d])

(***************************************************************************)
(* C19  Root well-formedness, amended: the same for every device whose     *)
(* linked_name is not the idkey of a device.                               *)
(***************************************************************************)
C19_RootWellFormed ==
  \A d \in Devices :
    (dev[d].alive /\ dev[d].linked_name \notin Idkeys) =>
      RootWellFormed(dev[d])

\* A device constructed with an idkey as its linked_name has confirmed with
\* a peer whose root is named otherwise, after an update_linked_group of
\* its own.
C19_Witness ==
  /\ last.op = "confirm"
  /\ Pre.linked_name \in Idkeys
  /\ Post.linked_name \notin Idkeys
  /\ <<last.d, last.peer>> \in merged
  /\ RootWellFormed(Post)
  /\ Cardinality(DOMAIN Store(Post)) > 2

(***************************************************************************)
(* Two joiners: devices "1" and "2" are constructed and each links to      *)
(* device "0".  The host merges each joiner's export once; at some point   *)
(* after merging a joiner it writes that joiner's ConfirmUpdateLinked      *)
(* message, its linked_name and get_all_groups() snapshot; the joiner      *)
(* confirms with the message when it is delivered.  No device calls        *)
(* delete_device.                                                          *)
(***************************************************************************)
Host == "0"
Joiners == Idkeys \ {Host}

Delivered(j) == \E m \in inflight : m.to = j /\ m.delivered

JoinNew(d) ==
  /\ ~dev[d].constructed
  /\ \E linked_name_arg \in LinkedNameArgs(d),
        pending \in IF d = Host THEN {None} ELSE {Some(Host)} :
       /\ dev' = [dev EXCEPT ![d] = Device_new(d, linked_name_arg, pending)]
       /\ last' = [op |-> "new", d |-> d, peer |-> "",
                   name |-> linked_name_arg, pending |-> pending,
                   table |-> NoTable, pre |-> dev[d], result |-> "Ok"]
  /\ UNCHANGED <<merged, inflight>>

\* The host receives UpdateLinked from joiner j.
JoinUpdate(j) ==
  /\ dev[Host].alive
  /\ dev[j].alive
  /\ <<Host, j>> \notin merged
  /\ LET temp_linked_name == dev[j].linked_name
         table == get_all_subgroups(dev[j].group_store, dev[j].linked_name)
         out == update_linked_group(dev[Host], j, temp_linked_name, table)
     IN /\ dev' = [dev EXCEPT ![Host] = out.dev]
        /\ last' = [op |-> "update", d |-> Host, peer |-> j,
                    name |-> Some(temp_linked_name), pending |-> None,
                    table |-> table, pre |-> dev[Host],
                    result |-> out.result]
        /\ merged' = IF out.result = "Ok"
                     THEN merged \cup {<<Host, j>>} ELSE merged
  /\ UNCHANGED inflight

\* The host writes ConfirmUpdateLinked for joiner j.
JoinSnapshot(j) ==
  /\ dev[Host].alive
  /\ <<Host, j>> \in merged
  /\ \A m \in inflight : m.to # j
  /\ inflight' = inflight \cup
       {[to |-> j, new_linked_name |-> dev[Host].linked_name,
         new_groups |-> get_all_groups(dev[Host].group_store),
         delivered |-> FALSE]}
  /\ last' = [op |-> "snapshot", d |-> Host, peer |-> j,
              name |-> Some(dev[Host].linked_name), pending |-> None,
              table |-> get_all_groups(dev[Host].group_store),
              pre |-> dev[Host], result |-> "Ok"]
  /\ UNCHANGED <<dev, merged>>

\* Joiner j receives its ConfirmUpdateLinked.
JoinConfirm(j) ==
  /\ dev[j].alive
  /\ \E m \in inflight :
       /\ m.to = j
       /\ ~m.delivered
       /\ LET out == confirm_update_linked_group(dev[j], m.new_linked_name,
                                                 m.new_groups)
          IN /\ dev' = [dev EXCEPT ![j] = out.dev]
             /\ last' = [op |-> "confirm", d |-> j, peer |-> Host,
                         name |-> Some(m.new_linked_name), pending |-> None,
                         table |-> m.new_groups, pre |-> dev[j],
                         result |-> out.result]
       /\ inflight' = (inflight \ {m}) \cup {[m EXCEPT !.delivered = TRUE]}
  /\ UNCHANGED merged

NextJoin ==
  \/ \E d \in Idkeys : JoinNew(d)
  \/ \E j \in Joiners : JoinUpdate(j)
  \/ \E j \in Joiners : JoinSnapshot(j)
  \/ \E j \in Joiners : JoinConfirm(j)

SpecJoin == Init /\ [][NextJoin]_vars

(***************************************************************************)
(* C20  Two joiners linking to one host: in every interleaving of the      *)
(* host's two merges, its two snapshots and the two joiners' confirms,     *)
(* once a joiner has confirmed its linked_devices() contains the host's    *)
(* idkey and its own, and is a subset of the host's linked_devices().      *)
(***************************************************************************)
C20_JoinersConverge ==
  \A j \in Joiners :
    Delivered(j) =>
      /\ {Host, j} \subseteq linked_devices(dev[j])
      /\ linked_devices(dev[j]) \subseteq linked_devices(dev[Host])

\* Both joiners have confirmed, one with a snapshot taken before the host
\* merged the other and one with a snapshot taken after.
C20_Witness ==
  /\ \A j \in Joiners : Delivered(j)
  /\ \E j \in Joiners : linked_devices(dev[j]) = {Host, j}
  /\ \E j \in Joiners : linked_devices(dev[j]) = Idkeys
  /\ linked_devices(dev[Host]) = Idkeys

====
